---- MODULE Spec2Model ----
(***************************************************************************)
(* Gapminder dashboard (src/dashboard_app2.py): the global data frame, the *)
(* four chart functions, the Dash update callbacks and the CSV download    *)
(* callbacks.                                                              *)
(*                                                                         *)
(* Python's None is the string "None".  A Year cell and a year dropdown    *)
(* value are written as their decimal numeral, so that None, a year of the *)
(* data and a year that is not in the data are values of one kind.         *)
(* Population, GDP per Capita and Life Expectancy are integers (the data   *)
(* holds no NaN).                                                          *)
(***************************************************************************)
EXTENDS Integers, Sequences, FiniteSets, TLC

VARIABLES gapminder_df, loaded, quicksort,
          value, n_clicks, figure, viewState, emitted,
          request, response, served

vars == <<gapminder_df, loaded, quicksort, value, n_clicks, figure,
          viewState, emitted, request, response, served>>

(***************************************************************************)
(* Bounds of the model.                                                    *)
(***************************************************************************)
\* countries of Africa in the data sets the callbacks are called on: more
\* than the 15 rows a chart shows
NumAfrica == 17

\* countries of Africa in the data set of the interactive session
SessionAfrica == 3

\* countries of Asia
NumAsia == 2

\* years of observation per country
NumYears == 2

\* the value patterns of the data sets the functions are applied to
MaxSeed == 2

\* presses of download buttons in a session
MaxClicks == 1

\* answered requests that are counted
MaxServed == 3

\* graphs in use at one time: a graph is in use while its callbacks are due
\* or a dropdown of it is off its initial value
MaxInUse == 1

(***************************************************************************)
(* The data set.                                                           *)
(***************************************************************************)
None == "None"

Columns ==
  <<"Country", "Continent", "Year", "Life Expectancy", "Population",
    "GDP per Capita", "ISO Alpha Country Code">>

AfricaNames ==
  <<"Algeria", "Angola", "Benin", "Botswana", "Burkina Faso", "Burundi",
    "Cameroon", "Chad", "Comoros", "Djibouti", "Egypt", "Eritrea",
    "Ethiopia", "Gabon", "Gambia", "Ghana", "Guinea", "Kenya", "Lesotho",
    "Liberia", "Libya", "Madagascar">>

AfricaIso ==
  <<"DZA", "AGO", "BEN", "BWA", "BFA", "BDI", "CMR", "TCD", "COM", "DJI",
    "EGY", "ERI", "ETH", "GAB", "GMB", "GHA", "GIN", "KEN", "LSO", "LBR",
    "LBY", "MDG">>

AsiaNames == <<"Afghanistan", "Bahrain", "Bangladesh", "Cambodia", "China">>

AsiaIso == <<"AFG", "BHR", "BGD", "KHM", "CHN">>

YearNames == <<"1952", "1957", "1962", "1967", "1972">>

\* Country c of a data set of africa African countries.
CountryName(c, africa) ==
  IF c <= africa THEN AfricaNames[c] ELSE AsiaNames[c - africa]

CountryIso(c, africa) ==
  IF c <= africa THEN AfricaIso[c] ELSE AsiaIso[c - africa]

CountryContinent(c, africa) == IF c <= africa THEN "Africa" ELSE "Asia"

\* How much of the ISO code column a data set fills in.
IsoModes == {"full", "partial", "absent_first_year"}

IsoCell(c, k, africa, iso) ==
  CASE iso = "full" -> CountryIso(c, africa)
    [] iso = "partial" -> IF c % 2 = 0 THEN None ELSE CountryIso(c, africa)
    [] OTHER -> IF k = 1 THEN None ELSE CountryIso(c, africa)

\* The row of country c in its k-th year.  The three measures take few
\* values, so that rows of one continent and year tie.
Row(c, k, africa, seed, iso) ==
  [col \in {Columns[i] : i \in 1..Len(Columns)} |->
     CASE col = "Country" -> CountryName(c, africa)
       [] col = "Continent" -> CountryContinent(c, africa)
       [] col = "Year" -> YearNames[k]
       [] col = "Life Expectancy" -> 40 + ((c + k) % (seed + 2))
       [] col = "Population" -> 1 + ((c * (seed + 2) + k) % 5)
       [] col = "GDP per Capita" -> 100 * (1 + ((c * 3 + seed) % 4)) + k
       [] OTHER -> IsoCell(c, k, africa, iso)]

\* gapminder(): one row per country and year, by country and then by year.
gapminder(africa, seed, iso) ==
  [i \in 1..((africa + NumAsia) * NumYears) |->
     Row(((i - 1) \div NumYears) + 1, ((i - 1) % NumYears) + 1,
         africa, seed, iso)]

\* The data sets the callbacks are called on.
Datasets ==
  {gapminder(NumAfrica, seed, iso) : seed \in 0..MaxSeed, iso \in IsoModes}

\* The data set of the interactive session.
session_df == gapminder(SessionAfrica, 1, "full")

(***************************************************************************)
(* pandas and plotly express, as far as the program uses them.             *)
(***************************************************************************)
\* Orders in which numpy's quicksort, the default kind of sort_values, may
\* leave rows of equal key: it is not a stable sort, and which order it
\* leaves depends on the build (the partition scheme, a SIMD kernel).
TieOrders == {"kept", "reversed"}

TopN == 15

ColumnSet == {Columns[i] : i \in 1..Len(Columns)}

\* df[(df.Continent == continent) & (df.Year == year)]
FilterContinentYear(df, continent, year) ==
  SelectSeq(df, LAMBDA r : r["Continent"] = continent /\ r["Year"] = year)

\* df[df.Year == year]
FilterYear(df, year) == SelectSeq(df, LAMBDA r : r["Year"] = year)

\* Does row i come before row j of equal key?
TieBefore(kind, i, j) ==
  IF kind = "kept" THEN i < j ELSE i > j

\* The rows by decreasing key: the row at place p is the one that p - 1
\* rows come before, by a larger key or by the order of equal keys.
SortedRows(rows, by, kind) ==
  [p \in 1..Len(rows) |->
     rows[CHOOSE i \in 1..Len(rows) :
            Cardinality({j \in 1..Len(rows) :
               \/ rows[j][by] > rows[i][by]
               \/ rows[j][by] = rows[i][by] /\ TieBefore(kind, j, i)})
              + 1 = p]]

\* df.sort_values(by=by, ascending=False): a new frame, rows by decreasing
\* key; kind is the order the build's sort leaves equal keys in.  (The frame
\* is bound by the set constructor, which evaluates it once.)
sort_values(df, by, kind) ==
  CHOOSE sorted \in {SortedRows(rows, by, kind) : rows \in {df}} : TRUE

\* df.head(n)
head(df, n) == IF Len(df) <= n THEN df ELSE SubSeq(df, 1, n)

\* A px.bar that refuses an empty frame (not the program's).
px_bar_refusing_empty(df, y, continent, year) ==
  IF df = <<>>
  THEN [status |-> "raised", exception |-> "ValueError"]
  ELSE [status |-> "figure", kind |-> "bar", x |-> "Country", y |-> y,
        title |-> <<y, continent, year>>, rows |-> df]

\* px.bar(df, x="Country", y=y, color="Country", title=...): one bar per
\* row, in the order of the rows; an empty frame gives a figure of no bars.
px_bar(df, y, continent, year) ==
  [status |-> "figure", kind |-> "bar", x |-> "Country", y |-> y,
   title |-> <<y, continent, year>>, rows |-> df]

\* px.choropleth(df, color=variable, locations=..., locationmode=...):
\* raises ValueError when color names no column of the frame.
px_choropleth(df, variable, locations, locationmode, year) ==
  IF variable \notin ColumnSet
  THEN [status |-> "raised", exception |-> "ValueError"]
  ELSE [status |-> "figure", kind |-> "choropleth", color |-> variable,
        locations |-> locations, locationmode |-> locationmode,
        title |-> <<variable, year>>, rows |-> df]

(***************************************************************************)
(* The chart functions.  Each returns what the Python function returns     *)
(* (ret), the values its query filtered by (query) and the global frame as *)
(* the call leaves it (gapminder_df): no function rebinds or writes the    *)
(* global, the filtered and sorted frames are new objects.                 *)
(***************************************************************************)
\* A population chart that cuts to 15 without sorting (not the program's).
create_population_chart_unsorted(df, kind, continent, year) ==
  LET filtered_df == head(FilterContinentYear(df, continent, year), TopN)
  IN  [ret |-> px_bar(filtered_df, "Population", continent, year),
       query |-> <<continent, year>>,
       gapminder_df |-> df]

\* A population chart that assigns its query to the global frame (not the
\* program's).
create_population_chart_rebinding(df, kind, continent, year) ==
  LET filtered_df ==
        head(sort_values(FilterContinentYear(df, continent, year),
                         "Population", kind), TopN)
  IN  [ret |-> px_bar(filtered_df, "Population", continent, year),
       query |-> <<continent, year>>,
       gapminder_df |-> filtered_df]

create_population_chart(df, kind, continent, year) ==
  LET filtered_df ==
        head(sort_values(FilterContinentYear(df, continent, year),
                         "Population", kind), TopN)
  IN  [ret |-> px_bar(filtered_df, "Population", continent, year),
       query |-> <<continent, year>>,
       gapminder_df |-> df]

create_gdp_chart(df, kind, continent, year) ==
  LET filtered_df ==
        head(sort_values(FilterContinentYear(df, continent, year),
                         "GDP per Capita", kind), TopN)
  IN  [ret |-> px_bar(filtered_df, "GDP per Capita", continent, year),
       query |-> <<continent, year>>,
       gapminder_df |-> df]

create_life_exp_chart(df, kind, continent, year) ==
  LET filtered_df ==
        head(sort_values(FilterContinentYear(df, continent, year),
                         "Life Expectancy", kind), TopN)
  IN  [ret |-> px_bar(filtered_df, "Life Expectancy", continent, year),
       query |-> <<continent, year>>,
       gapminder_df |-> df]

create_choropleth_map(df, variable, year) ==
  LET filtered_df == FilterYear(df, year)
  IN  [ret |-> px_choropleth(filtered_df, variable,
                             "ISO Alpha Country Code", "ISO-3", year),
       query |-> <<variable, year>>,
       gapminder_df |-> df]

\* The update callbacks pass their inputs on unchanged.
update_population_chart(df, kind, continent, year) ==
  create_population_chart(df, kind, continent, year)

update_gdp_chart(df, kind, continent, year) ==
  create_gdp_chart(df, kind, continent, year)

update_life_exp_chart(df, kind, continent, year) ==
  create_life_exp_chart(df, kind, continent, year)

update_map(df, var_map, year) == create_choropleth_map(df, var_map, year)

(***************************************************************************)
(* Widgets.                                                                *)
(***************************************************************************)
\* sorted(gapminder_df.Continent.unique())
continents == <<"Africa", "Asia">>

\* sorted(gapminder_df.Year.unique())
years == SubSeq(YearNames, 1, NumYears)

variables == <<"Population", "GDP per Capita", "Life Expectancy">>

Range(seq) == {seq[i] : i \in 1..Len(seq)}

\* mk_dropdown(id, options, value): the options and the initial value of
\* each dropdown; clearable=False, so the interface offers only the options.
Dropdowns ==
  {"cont_pop", "year_pop", "cont_gdp", "year_gdp", "cont_life_exp",
   "year_life_exp", "var_map", "year_map"}

mk_dropdown(id) ==
  CASE id \in {"cont_pop", "cont_gdp", "cont_life_exp"} ->
         [options |-> Range(continents), value |-> "Asia"]
    [] id = "var_map" ->
         [options |-> Range(variables), value |-> "Life Expectancy"]
    [] OTHER -> [options |-> Range(years), value |-> years[1]]

Graphs == {"population", "gdp", "life_expectancy", "choropleth_map"}

Buttons ==
  {"btn-download-dataset", "btn-download-pop", "btn-download-gdp",
   "btn-download-life", "btn-download-map"}

Downloads ==
  {"download-dataset", "download-pop", "download-gdp", "download-life",
   "download-map"}

(***************************************************************************)
(* The download callbacks.                                                 *)
(***************************************************************************)
ReturnNone == [status |-> "None"]

\* df.to_csv(index=False): a header line of the column names and one line
\* of cells per row, no index column.
to_csv(df, columns) ==
  [header |-> columns,
   lines |-> [i \in 1..Len(df) |->
                [c \in 1..Len(columns) |-> df[i][columns[c]]]]]

\* dcc.send_data_frame(df.to_csv, filename, index=False)
send_data_frame(df, columns, filename) ==
  [status |-> "file", filename |-> filename, content |-> to_csv(df, columns)]

\* var.replace(' ', '_')
replace_spaces(var) ==
  CASE var = "GDP per Capita" -> "GDP_per_Capita"
    [] var = "Life Expectancy" -> "Life_Expectancy"
    [] var = "ISO Alpha Country Code" -> "ISO_Alpha_Country_Code"
    [] OTHER -> var

\* "not n_clicks": n_clicks is None before the first press; 0 stands for it.
download_full_dataset(df, clicks) ==
  [ret |-> IF clicks = 0 THEN ReturnNone
           ELSE send_data_frame(df, Columns, <<"gapminder_full">>),
   gapminder_df |-> df]

download_population(df, kind, clicks, continent, year) ==
  [ret |-> IF clicks = 0 THEN ReturnNone
           ELSE send_data_frame(
                  sort_values(FilterContinentYear(df, continent, year),
                              "Population", kind),
                  Columns, <<"population", continent, year>>),
   gapminder_df |-> df]

download_gdp(df, kind, clicks, continent, year) ==
  [ret |-> IF clicks = 0 THEN ReturnNone
           ELSE send_data_frame(
                  sort_values(FilterContinentYear(df, continent, year),
                              "GDP per Capita", kind),
                  Columns, <<"gdp", continent, year>>),
   gapminder_df |-> df]

download_life(df, kind, clicks, continent, year) ==
  [ret |-> IF clicks = 0 THEN ReturnNone
           ELSE send_data_frame(
                  sort_values(FilterContinentYear(df, continent, year),
                              "Life Expectancy", kind),
                  Columns, <<"life_expectancy", continent, year>>),
   gapminder_df |-> df]

\* df[[..., var, ...]] raises KeyError when var names no column.
download_map(df, clicks, var, year) ==
  [ret |-> IF clicks = 0 THEN ReturnNone
           ELSE IF var \notin ColumnSet
           THEN [status |-> "raised", exception |-> "KeyError"]
           ELSE send_data_frame(
                  FilterYear(df, year),
                  <<"Country", "Continent", "Year", var,
                    "ISO Alpha Country Code">>,
                  <<"choropleth", replace_spaces(var), year>>),
   gapminder_df |-> df]

(***************************************************************************)
(* The callback graph: which callbacks a graph, a button and a dropdown    *)
(* are wired to (the @callback decorators).                                *)
(***************************************************************************)
\* The graph whose update callback has dropdown id as an Input.
GraphOf(id) ==
  CASE id \in {"cont_pop", "year_pop"} -> "population"
    [] id \in {"cont_gdp", "year_gdp"} -> "gdp"
    [] id \in {"cont_life_exp", "year_life_exp"} -> "life_expectancy"
    [] OTHER -> "choropleth_map"

\* The download component next to a graph, and the one of a button.
DownloadOf(graph) ==
  CASE graph = "population" -> "download-pop"
    [] graph = "gdp" -> "download-gdp"
    [] graph = "life_expectancy" -> "download-life"
    [] OTHER -> "download-map"

DownloadOfButton(button) ==
  CASE button = "btn-download-dataset" -> "download-dataset"
    [] button = "btn-download-pop" -> "download-pop"
    [] button = "btn-download-gdp" -> "download-gdp"
    [] button = "btn-download-life" -> "download-life"
    [] OTHER -> "download-map"

ButtonOf(download) ==
  CHOOSE b \in Buttons : DownloadOfButton(b) = download

\* The callback with Output(graph, "figure"), on the dropdown values val.
UpdateCallback(graph, df, kind, val) ==
  CASE graph = "population" ->
         update_population_chart(df, kind, val["cont_pop"], val["year_pop"])
    [] graph = "gdp" ->
         update_gdp_chart(df, kind, val["cont_gdp"], val["year_gdp"])
    [] graph = "life_expectancy" ->
         update_life_exp_chart(df, kind, val["cont_life_exp"],
                               val["year_life_exp"])
    [] OTHER -> update_map(df, val["var_map"], val["year_map"])

\* The callback with Output(download, "data"), on the click counts and the
\* dropdown values.
DownloadCallback(download, df, kind, clicks, val) ==
  CASE download = "download-dataset" ->
         download_full_dataset(df, clicks["btn-download-dataset"])
    [] download = "download-pop" ->
         download_population(df, kind, clicks["btn-download-pop"],
                             val["cont_pop"], val["year_pop"])
    [] download = "download-gdp" ->
         download_gdp(df, kind, clicks["btn-download-gdp"],
                      val["cont_gdp"], val["year_gdp"])
    [] download = "download-life" ->
         download_life(df, kind, clicks["btn-download-life"],
                       val["cont_life_exp"], val["year_life_exp"])
    [] OTHER ->
         download_map(df, clicks["btn-download-map"],
                      val["var_map"], val["year_map"])

\* An Output that drops what its callback returns (not the program's).
Rendered_dropped(old, ret) == old

\* What a callback's return value does to the property it is the Output of:
\* a raised exception leaves the property as it was.
Rendered(old, ret) == IF ret.status = "raised" THEN old ELSE ret

\* The presses of all buttons so far.
Pressed(clicks) ==
  clicks["btn-download-dataset"] + clicks["btn-download-pop"]
    + clicks["btn-download-gdp"] + clicks["btn-download-life"]
    + clicks["btn-download-map"]

\* The download component that hands a file to the browser, and the
\* property whose change fired its callback: none when the callback
\* returned None (or raised).
NoEmission == [id |-> None, prop |-> None]

Emission(download, ret, prop) ==
  IF ret.status = "file" THEN [id |-> download, prop |-> prop]
  ELSE NoEmission

(***************************************************************************)
(* The session: the state of the page and the events of the interface.     *)
(***************************************************************************)
NoRequest == [callback |-> None, n_clicks |-> 0, a |-> None, year |-> None]

NoResponse == [ret |-> ReturnNone, query |-> <<>>]

InitialValue == [id \in Dropdowns |-> mk_dropdown(id).value]

\* The layout builds each figure by a call of its chart function on the
\* initial dropdown values, and the page's first round of callbacks (no
\* button pressed) returns the same figures and no file.
InitPage ==
  /\ value = InitialValue
  /\ n_clicks = [b \in Buttons |-> 0]
  /\ figure = [g \in Graphs |->
                 UpdateCallback(g, gapminder_df, quicksort, InitialValue).ret]
  /\ viewState = [g \in Graphs |-> "Idle"]
  /\ emitted = NoEmission
  /\ request = NoRequest
  /\ response = NoResponse
  /\ served = 0

Init ==
  /\ gapminder_df = session_df
  /\ loaded = gapminder_df
  /\ quicksort \in TieOrders
  /\ InitPage

\* The graphs in use: those whose callbacks are due or whose dropdowns are
\* off their initial values.
InUse(val, state) ==
  {g \in Graphs :
     \/ state[g] = "Regenerating"
     \/ \E id \in Dropdowns : GraphOf(id) = g /\ val[id] # InitialValue[id]}

\* The user picks another option of dropdown id: the callbacks that have it
\* as an Input are due.
SelectOption(id, v) ==
  /\ v \in mk_dropdown(id).options
  /\ v # value[id]
  /\ value' = [value EXCEPT ![id] = v]
  /\ viewState' = [viewState EXCEPT ![GraphOf(id)] = "Regenerating"]
  /\ Cardinality(InUse(value', viewState')) <= MaxInUse
  /\ emitted' = NoEmission
  /\ UNCHANGED <<gapminder_df, loaded, quicksort, n_clicks, figure,
                 request, response, served>>

\* The callbacks due for a graph's dropdowns run on the current values: the
\* update callback of the graph and the download callback next to it, which
\* has the same dropdowns as Inputs.
Regenerate(graph) ==
  /\ viewState[graph] = "Regenerating"
  /\ viewState' = [viewState EXCEPT ![graph] = "Idle"]
  /\ UNCHANGED <<loaded, quicksort, value, n_clicks, request, response,
                 served>>
  /\ \E u \in {UpdateCallback(graph, gapminder_df, quicksort, value)} :
       \E d \in {DownloadCallback(DownloadOf(graph), u.gapminder_df,
                                  quicksort, n_clicks, value)} :
         /\ figure' = [figure EXCEPT ![graph] = Rendered(@, u.ret)]
         /\ emitted' = Emission(DownloadOf(graph), d.ret, "value")
         /\ gapminder_df' = d.gapminder_df

\* The user presses a download button: its callback runs on the new count
\* and the current dropdown values.
ClickButton(button) ==
  /\ Pressed(n_clicks) < MaxClicks
  /\ n_clicks' = [n_clicks EXCEPT ![button] = @ + 1]
  /\ \E d \in {DownloadCallback(DownloadOfButton(button), gapminder_df,
                                quicksort, n_clicks', value)} :
         /\ emitted' = Emission(DownloadOfButton(button), d.ret, "n_clicks")
         /\ gapminder_df' = d.gapminder_df
  /\ UNCHANGED <<loaded, quicksort, value, figure, viewState, request,
                 response, served>>

\* The events of the dropdowns and the callbacks they make due.
NextViews ==
  \/ \E id \in Dropdowns : \E v \in mk_dropdown(id).options :
       SelectOption(id, v)
  \/ \E graph \in Graphs : Regenerate(graph)

\* All events of the interface.
NextSession ==
  \/ \E id \in Dropdowns : \E v \in mk_dropdown(id).options :
       SelectOption(id, v)
  \/ \E graph \in Graphs : Regenerate(graph)
  \/ \E button \in Buttons : ClickButton(button)

\* A due callback runs: the server answers every request of the page.  This
\* is weak fairness of Regenerate(graph), WF_vars(Regenerate(graph)), with
\* ENABLED <<Regenerate(graph)>>_vars written as the guard of the action,
\* which it is equivalent to (the step changes viewState).
Fairness ==
  \A graph \in Graphs :
    \/ []<>(viewState[graph] # "Regenerating")
    \/ []<><<Regenerate(graph)>>_vars

SpecViews == Init /\ [][NextViews]_vars /\ Fairness

SpecSession == Init /\ [][NextSession]_vars /\ Fairness

(***************************************************************************)
(* The callbacks as functions of their arguments: a request names a        *)
(* callback and its arguments, which need not be options of a dropdown     *)
(* (None, a continent or a year the data does not have, a variable that is *)
(* no column), the server answers it and is ready for the next one.        *)
(* A variable of None is not among the inputs.                             *)
(***************************************************************************)
ContinentInputs == Range(continents) \cup {None, "Atlantis"}

YearInputs == Range(years) \cup {None, "1900"}

VariableInputs == Range(variables) \cup {"Bogus"}

ClickInputs == 0..MaxClicks

InitCall ==
  /\ gapminder_df \in Datasets
  /\ loaded = gapminder_df
  /\ quicksort \in TieOrders
  /\ InitPage

\* The server runs callback name on the arguments and answers with r.
Answer(name, clicks, a, year, r, query) ==
  /\ request = NoRequest
  /\ request' = [callback |-> name, n_clicks |-> clicks, a |-> a,
                 year |-> year]
  /\ response' = [ret |-> r.ret, query |-> query]
  /\ gapminder_df' = r.gapminder_df
  /\ served' = IF served < MaxServed THEN served + 1 ELSE served
  /\ UNCHANGED <<loaded, quicksort, value, n_clicks, figure, viewState,
                 emitted>>

Call_update_population_chart(continent, year) ==
  LET r == update_population_chart(gapminder_df, quicksort, continent, year)
  IN  Answer("update_population_chart", 0, continent, year, r, r.query)

Call_update_gdp_chart(continent, year) ==
  LET r == update_gdp_chart(gapminder_df, quicksort, continent, year)
  IN  Answer("update_gdp_chart", 0, continent, year, r, r.query)

Call_update_life_exp_chart(continent, year) ==
  LET r == update_life_exp_chart(gapminder_df, quicksort, continent, year)
  IN  Answer("update_life_exp_chart", 0, continent, year, r, r.query)

Call_update_map(var_map, year) ==
  LET r == update_map(gapminder_df, var_map, year)
  IN  Answer("update_map", 0, var_map, year, r, r.query)

Call_download_full_dataset(clicks) ==
  Answer("download_full_dataset", clicks, None, None,
         download_full_dataset(gapminder_df, clicks), <<>>)

Call_download_population(clicks, continent, year) ==
  Answer("download_population", clicks, continent, year,
         download_population(gapminder_df, quicksort, clicks, continent,
                             year), <<>>)

Call_download_gdp(clicks, continent, year) ==
  Answer("download_gdp", clicks, continent, year,
         download_gdp(gapminder_df, quicksort, clicks, continent, year),
         <<>>)

Call_download_life(clicks, continent, year) ==
  Answer("download_life", clicks, continent, year,
         download_life(gapminder_df, quicksort, clicks, continent, year),
         <<>>)

Call_download_map(clicks, var, year) ==
  Answer("download_map", clicks, var, year,
         download_map(gapminder_df, clicks, var, year), <<>>)

\* The answer is sent; the server takes the next request.
Return ==
  /\ request # NoRequest
  /\ request' = NoRequest
  /\ response' = NoResponse
  /\ UNCHANGED <<gapminder_df, loaded, quicksort, value, n_clicks, figure,
                 viewState, emitted, served>>

NextCall ==
  \/ \E c \in ContinentInputs, y \in YearInputs :
       \/ Call_update_population_chart(c, y)
       \/ Call_update_gdp_chart(c, y)
       \/ Call_update_life_exp_chart(c, y)
  \/ \E v \in VariableInputs, y \in YearInputs : Call_update_map(v, y)
  \/ \E n \in ClickInputs : Call_download_full_dataset(n)
  \/ \E n \in ClickInputs, c \in ContinentInputs, y \in YearInputs :
       \/ Call_download_population(n, c, y)
       \/ Call_download_gdp(n, c, y)
       \/ Call_download_life(n, c, y)
  \/ \E n \in ClickInputs, v \in VariableInputs, y \in YearInputs :
       Call_download_map(n, v, y)
  \/ Return

SpecCall == InitCall /\ [][NextCall]_vars

(***************************************************************************)
(* Properties.                                                             *)
(***************************************************************************)
BarUpdates ==
  {"update_population_chart", "update_gdp_chart", "update_life_exp_chart"}

BarDownloads == {"download_population", "download_gdp", "download_life"}

\* The column a bar chart and the download next to it rank by.
RankedBy(callback) ==
  CASE callback \in {"update_population_chart", "download_population"} ->
         "Population"
    [] callback \in {"update_gdp_chart", "download_gdp"} -> "GDP per Capita"
    [] OTHER -> "Life Expectancy"

\* The places in the data set of the rows of a continent and a year.
Matching(df, continent, year) ==
  {i \in 1..Len(df) :
     df[i]["Continent"] = continent /\ df[i]["Year"] = year}

\* The place of row r in the data set.
PlaceOf(df, r) == CHOOSE i \in 1..Len(df) : df[i] = r

\* An update callback of a bar chart has been answered with a figure.
BarAnswered ==
  request.callback \in BarUpdates /\ response.ret.status = "figure"

\* C1: the query of a bar chart yields at most 15 rows, each a row of the
\* data set with the continent and the year asked for, in non-increasing
\* order of the ranking column, the first carrying the largest value of that
\* column among all rows of the continent and year.
C1_TopFifteenRanked ==
  BarAnswered =>
    LET rows == response.ret.rows
        by == RankedBy(request.callback)
        matching == Matching(gapminder_df, request.a, request.year)
    IN  /\ Len(rows) <= 15
        /\ \A i \in 1..Len(rows) :
             /\ rows[i]["Continent"] = request.a
             /\ rows[i]["Year"] = request.year
             /\ \E m \in matching : gapminder_df[m] = rows[i]
        /\ \A i \in 1..(Len(rows) - 1) : rows[i][by] >= rows[i + 1][by]
        /\ matching # {} =>
             /\ Len(rows) >= 1
             /\ \A m \in matching : rows[1][by] >= gapminder_df[m][by]

\* C1 witness: a chart of a continent and year of more than 15 rows was
\* answered with 15 of them, not all of one value.
C1_Witness ==
  /\ BarAnswered
  /\ Cardinality(Matching(gapminder_df, request.a, request.year)) > 15
  /\ Len(response.ret.rows) = 15
  /\ response.ret.rows[1][RankedBy(request.callback)]
       > response.ret.rows[15][RankedBy(request.callback)]

\* C2: a CSV export of a bar chart's tab writes as many rows as the chart of
\* the same continent and year displays.
C2_ExportRowsEqualChartRows ==
  (request.callback \in BarDownloads /\ response.ret.status = "file") =>
    Len(response.ret.content.lines)
      = Len(UpdateCallback(
              CASE request.callback = "download_population" -> "population"
                [] request.callback = "download_gdp" -> "gdp"
                [] OTHER -> "life_expectancy",
              gapminder_df, quicksort,
              [id \in Dropdowns |->
                 IF id \in {"cont_pop", "cont_gdp", "cont_life_exp"}
                 THEN request.a ELSE request.year]).ret.rows)

\* C3: a download component hands a file to the browser only when a press
\* of its button fired the callback, never when a dropdown change did.
C3_DownloadOnlyOnClick ==
  emitted.id # None => emitted.prop = "n_clicks"

\* C4: the choropleth map is located by ISO-3 codes when a row of the year
\* has a code, and by country names when no row of the year has one.
C4_LocationKeyPerYear ==
  (request.callback = "update_map" /\ response.ret.status = "figure") =>
    IF \E i \in 1..Len(gapminder_df) :
         /\ gapminder_df[i]["Year"] = request.year
         /\ gapminder_df[i]["ISO Alpha Country Code"] # None
    THEN /\ response.ret.locationmode = "ISO-3"
         /\ response.ret.locations = "ISO Alpha Country Code"
    ELSE /\ response.ret.locationmode = "country names"
         /\ response.ret.locations = "Country"

\* A bar chart was asked for a continent and year that no row has.
NoRowMatches ==
  /\ request.callback \in BarUpdates
  /\ Matching(gapminder_df, request.a, request.year) = {}

\* C5: a bar chart of a continent and year that no row has is answered with
\* a figure of no rows, not with an error.
C5_EmptySelectionNoError ==
  NoRowMatches =>
    /\ response.ret.status = "figure"
    /\ response.ret.rows = <<>>

\* C5 witness: a chart of a continent that is not in the data was answered.
C5_Witness ==
  /\ NoRowMatches
  /\ request.a = "Atlantis"
  /\ request.year \in Range(years)
  /\ response.ret.status = "figure"

UpdateCallbacks == BarUpdates \cup {"update_map"}

\* C6: an update callback queries the data set with a valid selection: a
\* value that is not an option was replaced by an option before the query.
C6_QueryOnValidSelection ==
  request.callback \in UpdateCallbacks =>
    /\ response.query[1] \in
         (IF request.callback = "update_map" THEN Range(variables)
          ELSE Range(continents))
    /\ response.query[2] \in Range(years)

\* C7: no update callback lets an exception out, whatever its arguments.
C7_NoExceptionPropagates ==
  request.callback \in UpdateCallbacks => response.ret.status # "raised"

\* The update callback of a graph.
UpdateOf(graph) ==
  CASE graph = "population" -> "update_population_chart"
    [] graph = "gdp" -> "update_gdp_chart"
    [] graph = "life_expectancy" -> "update_life_exp_chart"
    [] OTHER -> "update_map"

\* The request repeats the call the layout made for the graph.
RepeatsLayoutCall(graph) ==
  /\ request.callback = UpdateOf(graph)
  /\ request.a = (IF graph = "choropleth_map" THEN "Life Expectancy"
                  ELSE "Asia")
  /\ request.year = years[1]

\* C8: the global data frame stays as loaded (the same rows in the same
\* order) whatever callbacks have run, and a regeneration gives the rows it
\* gave before: a repeat of the call the layout made at construction gives
\* the rows of the layout's figure, and any regeneration gives the rows it
\* gives on the frame as loaded.
C8_DatasetFixedRegenerationRepeatable ==
  /\ gapminder_df = loaded
  /\ \A graph \in Graphs :
       RepeatsLayoutCall(graph) => response.ret.rows = figure[graph].rows
  /\ BarAnswered =>
       response.ret.rows
         = UpdateCallback(
             CASE request.callback = "update_population_chart" -> "population"
               [] request.callback = "update_gdp_chart" -> "gdp"
               [] OTHER -> "life_expectancy",
             loaded, quicksort,
             [id \in Dropdowns |->
                IF id \in {"cont_pop", "cont_gdp", "cont_life_exp"}
                THEN request.a ELSE request.year]).ret.rows

\* C8 witness: after other callbacks were answered, a repeat of the call the
\* layout made for the population chart is answered.
C8_Witness ==
  /\ served >= 3
  /\ RepeatsLayoutCall("population")
  /\ response.ret.rows = figure["population"].rows
  /\ Len(response.ret.rows) > 0

\* C9: rows of equal value of the ranking column keep the order they have
\* in the data set, in the chart's rows and in which of them the cut to 15
\* keeps.
C9_TiesInDatasetOrder ==
  BarAnswered =>
    LET rows == response.ret.rows
        by == RankedBy(request.callback)
        matching == Matching(gapminder_df, request.a, request.year)
    IN  /\ \A i, j \in 1..Len(rows) :
             (i < j /\ rows[i][by] = rows[j][by]) =>
               PlaceOf(gapminder_df, rows[i]) < PlaceOf(gapminder_df, rows[j])
        /\ \A m \in matching :
             (\A i \in 1..Len(rows) : rows[i] # gapminder_df[m]) =>
               \A i \in 1..Len(rows) :
                 rows[i][by] = gapminder_df[m][by] =>
                   PlaceOf(gapminder_df, rows[i]) < m

\* C10: a graph is Idle or Regenerating; a change of one of its dropdowns
\* makes it Regenerating, Regenerating leads to Idle, an Idle graph shows the
\* figure of the current values of its dropdowns, and a figure changes only
\* in the step that takes its own graph from Regenerating to Idle.
C10_ViewStateMachine ==
  /\ [][\A id \in Dropdowns :
          value'[id] # value[id] =>
            viewState'[GraphOf(id)] = "Regenerating"]_vars
  /\ \A graph \in Graphs :
       (viewState[graph] = "Regenerating") ~> (viewState[graph] = "Idle")
  /\ [](\A graph \in Graphs :
          /\ viewState[graph] \in {"Idle", "Regenerating"}
          /\ viewState[graph] = "Idle" =>
               figure[graph]
                 = UpdateCallback(graph, gapminder_df, quicksort, value).ret)
  /\ [][\A graph \in Graphs :
          figure'[graph] # figure[graph] =>
            /\ viewState[graph] = "Regenerating"
            /\ viewState'[graph] = "Idle"]_vars

\* C10 witness: the population chart is Idle on a selection other than the
\* initial one and shows that selection's figure.
C10_Witness ==
  /\ viewState["population"] = "Idle"
  /\ value["cont_pop"] = "Africa"
  /\ value["year_pop"] # years[1]
  /\ figure["population"].title
       = <<"Population", "Africa", value["year_pop"]>>

====
